---- MODULE Spec2Model ----
(***************************************************************************)
(* GeminiService (src/backend/services/GeminiService.js): a constructor,   *)
(* five media processors, the fan-out/fan-in of processMessage and the     *)
(* bounded retry loop of generateFinalResponse.                            *)
(*                                                                         *)
(* One step of the model is one turn of the JavaScript event loop: the     *)
(* synchronous code of a call or of a callback together with the           *)
(* microtasks (promise continuations) it triggers.  The remote model and   *)
(* the filesystem are the environment: every remote call in flight         *)
(* settles in its own later step, in any order, by returning a text or by  *)
(* throwing.                                                               *)
(*                                                                         *)
(* Numbers with decimals are kept in hundredths (0.85 is 85).              *)
(***************************************************************************)
EXTENDS Integers, Sequences, FiniteSets, TLC

(***************************************************************************)
(* Bounds of the model.                                                    *)
(***************************************************************************)
MaxUnits == 2      \* media paths in one call of processMessage, all kinds
MaxTexts == 2      \* text messages in one call of processMessage
FairUnits == 1     \* media paths in one call, where termination is checked

(***************************************************************************)
(* JavaScript values.  `undefined` is a value distinct from every string   *)
(* the model uses.                                                         *)
(***************************************************************************)
undefined == "<undefined>"

Falsy(v) == v = undefined \/ v = ""
Truthy(v) == ~Falsy(v)

\* String.prototype.trim on the strings of the model: the whitespace-only
\* strings become empty, the others have no outer whitespace.
Trim(s) == IF s \in {"", " ", "\n \t"} THEN "" ELSE s

\* the loop and exit test of generateFinalResponse on response.text
IsBlank(text) == Falsy(text) \/ Trim(text) = ""

(***************************************************************************)
(* The environment: what callers pass, what files and the remote model do. *)
(***************************************************************************)
FilePool == <<"a.bin", "b.bin", "c.bin", "d.bin">>
MsgPool == <<"hola", "que ves?", "gracias", "chau">>
ApiKeys == {undefined, "", "KEY"}
ContextPrompts == {undefined, "", "user: hi"}
ReadErrors == {"ENOENT", "EACCES"}
ReadOutcomes == {"ok"} \cup ReadErrors
MediaTexts == {"", "a cat"}
MediaErrors == {[message |-> "HTTP 500"], [message |-> "ECONNRESET"]}
SynthTexts == {undefined, "", " ", "Claro."}
SynthErrors == {[message |-> ""], [message |-> "quota exceeded"]}

(***************************************************************************)
(* processMessage, line 13: the kinds in the order of the object literal.  *)
(***************************************************************************)
mediaTypes == <<"image", "audio", "video", "sticker", "document">>
KindSet == {mediaTypes[k] : k \in 1..Len(mediaTypes)}

\* type.charAt(0).toUpperCase() + type.slice(1)
Capitalize(type) ==
  CASE type = "image" -> "Image"
    [] type = "audio" -> "Audio"
    [] type = "video" -> "Video"
    [] type = "sticker" -> "Sticker"
    [] type = "document" -> "Document"

(***************************************************************************)
(* The five processors: what each sends and what it answers on failure.    *)
(***************************************************************************)
processImage ==
  [mimeType |-> "image/jpeg", mediaFirst |-> TRUE, temperature |-> 85,
   error |-> "Error al procesar imagen"]
processAudio ==
  [mimeType |-> "audio/mp3", mediaFirst |-> FALSE, temperature |-> 85,
   error |-> "Error al procesar audio"]
processVideo ==
  [mimeType |-> "video/mp4", mediaFirst |-> TRUE, temperature |-> 85,
   error |-> "Error al procesar video"]
processSticker ==
  [mimeType |-> "image/jpeg", mediaFirst |-> TRUE, temperature |-> 100,
   error |-> "Error al procesar sticker"]
processDocument ==
  [mimeType |-> "application/pdf", mediaFirst |-> FALSE, temperature |-> 45,
   error |-> "Error al procesar documento"]

\* this[`process${Capitalize(type)}`]
Method(name) ==
  CASE name = "processImage" -> processImage
    [] name = "processAudio" -> processAudio
    [] name = "processVideo" -> processVideo
    [] name = "processSticker" -> processSticker
    [] name = "processDocument" -> processDocument

ProcessorOf(type) == Method("process" \o Capitalize(type))

NoResult == [none |-> TRUE]

\* A processor up to its first await: readFileSync while `contents` is
\* built, before the try block, then the remote call is issued.  An async
\* function that throws returns a rejected promise.
StartProcessor(type, path, read) ==
  IF read = "ok"
  THEN [type |-> type, path |-> path, state |-> "pending",
        remote |-> "inFlight", result |-> NoResult, reason |-> NoResult,
        seq |-> 0]
  ELSE [type |-> type, path |-> path, state |-> "rejected",
        remote |-> "notCalled", result |-> NoResult,
        reason |-> [message |-> read], seq |-> 0]

\* the request a processor sends (lines 37-41 and alike)
MediaRequest(type, path) ==
  [type |-> type, path |-> path,
   mimeType |-> ProcessorOf(type).mimeType,
   mediaFirst |-> ProcessorOf(type).mediaFirst,
   maxOutputTokens |-> 2048,
   temperature |-> ProcessorOf(type).temperature]

\* return { content: response.text }
OnMediaReturn(type, text) == [content |-> text]

OnMediaThrowLeaks(type, err) == [processed |-> FALSE, error |-> err.message]

\* catch { return { processed: false, error: '...' } }
OnMediaThrow(type, err) == [processed |-> FALSE, error |-> ProcessorOf(type).error]

(***************************************************************************)
(* processMessage, lines 15-19: flatMap over the kinds, map over the paths *)
(* of each kind.  `reads` gives the outcome of the file read of each unit. *)
(***************************************************************************)
RECURSIVE FlattenFrom(_, _)
FlattenFrom(paths, k) ==
  IF k > Len(mediaTypes) THEN <<>>
  ELSE [j \in 1..Len(paths[mediaTypes[k]]) |->
          [type |-> mediaTypes[k], path |-> paths[mediaTypes[k]][j]]]
       \o FlattenFrom(paths, k + 1)

Flatten(paths) == FlattenFrom(paths, 1)

Dispatch(paths, reads) ==
  [u \in 1..Len(Flatten(paths)) |->
     StartProcessor(Flatten(paths)[u].type, Flatten(paths)[u].path, reads[u])]

Requests(us) ==
  LET sent == SelectSeq(us, LAMBDA unit : unit.state = "pending")
  IN [u \in 1..Len(sent) |-> MediaRequest(sent[u].type, sent[u].path)]

PromiseAny(us) ==
  IF \E u \in 1..Len(us) : us[u].state = "rejected" THEN "rejected"
  ELSE IF us = <<>> \/ \E u \in 1..Len(us) : us[u].state = "fulfilled"
       THEN "fulfilled"
  ELSE "pending"

(***************************************************************************)
(* Promise.all, line 21.                                                   *)
(***************************************************************************)
PromiseAll(us) ==
  IF \E u \in 1..Len(us) : us[u].state = "rejected" THEN "rejected"
  ELSE IF \A u \in 1..Len(us) : us[u].state = "fulfilled" THEN "fulfilled"
  ELSE "pending"

\* The reason of the first promise to reject.  Only file reads reject, all
\* during the dispatch, so the first is the one of least index.
FirstRejection(us) ==
  us[CHOOSE u \in 1..Len(us) :
       /\ us[u].state = "rejected"
       /\ \A v \in 1..(u - 1) : us[v].state # "rejected"].reason

\* the position of promise u among the promises in the order they settled
CompletionRank(us, u) ==
  1 + Cardinality({v \in 1..Len(us) :
                     \/ us[v].seq < us[u].seq
                     \/ us[v].seq = us[u].seq /\ v < u})

PromiseAllValuesAsSettled(us) ==
  [r \in 1..Len(us) |->
     LET u == CHOOSE v \in 1..Len(us) : CompletionRank(us, v) = r
     IN [type |-> us[u].type, result |-> us[u].result]]

\* The value of Promise.all: the values of the promises at the positions
\* of the promises, each wrapped by .then(result => ({ type, result })).
PromiseAllValues(us) ==
  [u \in 1..Len(us) |-> [type |-> us[u].type, result |-> us[u].result]]

(***************************************************************************)
(* processMessage, lines 22-25: results.forEach into status.results.  A    *)
(* JavaScript object keeps its keys in insertion order: status.results is  *)
(* the sequence of its entries.                                            *)
(***************************************************************************)
HasKey(results, type) == \E e \in 1..Len(results) : results[e].type = type

Get(results, type) ==
  results[CHOOSE e \in 1..Len(results) : results[e].type = type].items

PushNewKeyFirst(results, type, result) ==
  LET withKey == IF HasKey(results, type) THEN results
                 ELSE <<[type |-> type, items |-> <<>>]>> \o results
  IN [e \in 1..Len(withKey) |->
        IF withKey[e].type = type
        THEN [withKey[e] EXCEPT !.items = Append(@, result)]
        ELSE withKey[e]]

Push(results, type, result) ==
  LET withKey == IF HasKey(results, type) THEN results
                 ELSE Append(results, [type |-> type, items |-> <<>>])
  IN [e \in 1..Len(withKey) |->
        IF withKey[e].type = type
        THEN [withKey[e] EXCEPT !.items = Append(@, result)]
        ELSE withKey[e]]

RECURSIVE ForEach(_, _, _)
ForEach(values, v, results) ==
  IF v > Len(values) THEN results
  ELSE ForEach(values, v + 1, Push(results, values[v].type, values[v].result))

Aggregate(us, texts) ==
  [results |-> ForEach(PromiseAllValues(us), 1, <<>>), messages |-> texts]

(***************************************************************************)
(* generateFinalResponse, lines 121-128: contextParts.  The prompt is the  *)
(* sequence of its non-empty parts; join('') concatenates them.            *)
(***************************************************************************)
Preamble == [part |-> "preamble"]
EmptyPart == [part |-> ""]

Label(type) ==
  IF type = "audio" THEN "transcription"
  ELSE IF type = "document" THEN "summary" ELSE "description"

Content(item) == IF "content" \in DOMAIN item THEN item.content ELSE undefined

HistoryPartAlways(contextPrompt) ==
  [part |-> "history", text |-> contextPrompt]

\* contextPrompt ? `\n\nConversation history:\n${contextPrompt}` : ''
HistoryPart(contextPrompt) ==
  IF Truthy(contextPrompt)
  THEN [part |-> "history", text |-> contextPrompt]
  ELSE EmptyPart

MessagesPartFromZero(messages) ==
  IF Len(messages) > 0
  THEN [part |-> "messages",
        lines |-> [m \in 1..Len(messages) |-> [n |-> m - 1, msg |-> messages[m]]]]
  ELSE EmptyPart

\* messages.length > 0 ? `\n\nUser's messages:\n${...}` : ''
MessagesPart(messages) ==
  IF Len(messages) > 0
  THEN [part |-> "messages",
        lines |-> [m \in 1..Len(messages) |-> [n |-> (m - 1) + 1, msg |-> messages[m]]]]
  ELSE EmptyPart

ItemPartFromZero(type, item, i) ==
  IF Truthy(Content(item))
  THEN [part |-> "media", kind |-> Capitalize(type), index |-> i,
        label |-> Label(type), content |-> Content(item)]
  ELSE EmptyPart

\* items.map((item, i) => item.content ? `\n\n${Type} ${i + 1} ${label}: ${item.content}` : '')
ItemPart(type, item, i) ==
  IF Truthy(Content(item))
  THEN [part |-> "media", kind |-> Capitalize(type), index |-> i + 1,
        label |-> Label(type), content |-> Content(item)]
  ELSE EmptyPart

ItemParts(type, items) ==
  [p \in 1..Len(items) |-> ItemPart(type, items[p], p - 1)]

RECURSIVE MediaParts(_, _)
MediaParts(results, e) ==
  IF e > Len(results) THEN <<>>
  ELSE ItemParts(results[e].type, results[e].items) \o MediaParts(results, e + 1)

FilterBoolean(parts) == SelectSeq(parts, LAMBDA p : p.part # "")

ComposePrompt(results, messages, contextPrompt) ==
  FilterBoolean(<<Preamble, HistoryPart(contextPrompt), MessagesPart(messages)>>
                \o MediaParts(results, 1))

\* the default value of the parameter: contextPrompt = ''
DefaultContext(contextPrompt) ==
  IF contextPrompt = undefined THEN "" ELSE contextPrompt

(***************************************************************************)
(* generateFinalResponse, lines 130-166: the retry loop and its results.   *)
(***************************************************************************)
maxAttempts == 5

SynthRequestSameTemperature(parts, n) ==
  [contents |-> parts, maxOutputTokens |-> 2048, temperature |-> 90]

\* temperature: 0.9 + (attempts * 0.01)
SynthRequest(parts, n) ==
  [contents |-> parts, maxOutputTokens |-> 2048, temperature |-> 90 + (n * 1)]

LoopAgainOnceMore(text, n) == IsBlank(text) /\ n <= maxAttempts

LoopAgainWhateverText(text, n) == n < maxAttempts

LoopAgainOnText(text, n) == ~IsBlank(text) /\ n < maxAttempts

\* while ((!response.text || response.text.trim() === '') && attempts < maxAttempts)
LoopAgain(text, n) == IsBlank(text) /\ n < maxAttempts

EmptyResult ==
  [status |-> "error",
   message |-> "No se pudo generar una respuesta después de varios intentos",
   processed |-> TRUE,
   error |-> "Respuesta vacía después de múltiples intentos"]

SuccessResult(text) ==
  [status |-> "success", response |-> text,
   results |-> [text |-> [content |-> text]]]

AfterLoopAlwaysSuccess(text) == SuccessResult(text)

\* lines 149-158, after the loop
AfterLoop(text) == IF IsBlank(text) THEN EmptyResult ELSE SuccessResult(text)

CatchResultFixed(err) ==
  [status |-> "error",
   message |-> "Error al generar respuesta final",
   processed |-> TRUE,
   error |-> "Error al generar respuesta final"]

\* lines 159-165: error.message || 'Error al generar respuesta final'
CatchResult(err) ==
  [status |-> "error",
   message |-> "Error al generar respuesta final",
   processed |-> TRUE,
   error |-> IF Truthy(err.message) THEN err.message
             ELSE "Error al generar respuesta final"]

(***************************************************************************)
(* State.                                                                  *)
(***************************************************************************)
VARIABLES
  service,      \* the GeminiService object: this.ai, this.model
  credential,   \* the argument of the constructor
  input,        \* the argument of processMessage
  units,        \* the promises of processMessage, one per media path
  mediaCalls,   \* the requests sent by the processors, in the order sent
  settles,      \* how many media remote calls have settled
  pm,           \* where processMessage is
  pmResult,     \* what the promise of processMessage settled with
  status,       \* the AggregatedStatus handed to generateFinalResponse
  prompt,       \* contextParts
  gen,          \* where generateFinalResponse is
  attempts,     \* let attempts
  response,     \* let response: the text of the last response
  synthCalls,   \* the requests sent by generateFinalResponse, in order
  inFlight,     \* synthesis remote calls issued and not yet settled
  blankReturns, \* synthesis remote calls that returned blank text
  thrown,       \* the error a synthesis remote call threw, if one did
  genResult     \* what generateFinalResponse returned

vars == <<service, credential, input, units, mediaCalls, settles, pm, pmResult, status,
          prompt, gen, attempts, response, synthCalls, inFlight,
          blankReturns, thrown, genResult>>

genVars == <<status, prompt, gen, attempts, response, synthCalls, inFlight,
             blankReturns, thrown, genResult>>

PathInputs ==
  {p \in [KindSet -> {SubSeq(FilePool, 1, n) : n \in 0..MaxUnits}] :
     Len(Flatten(p)) <= MaxUnits}

TextInputs == {SubSeq(MsgPool, 1, n) : n \in 0..MaxTexts}

NoInput ==
  [texts |-> <<>>, paths |-> [k \in KindSet |-> <<>>], contextPrompt |-> undefined]

Init ==
  /\ service = [state |-> "new"]
  /\ credential = undefined
  /\ input = NoInput
  /\ units = <<>>
  /\ mediaCalls = <<>>
  /\ settles = 0
  /\ pm = "idle"
  /\ pmResult = NoResult
  /\ status = NoResult
  /\ prompt = <<>>
  /\ gen = "notCalled"
  /\ attempts = 0
  /\ response = undefined
  /\ synthCalls = <<>>
  /\ inFlight = 0
  /\ blankReturns = 0
  /\ thrown = NoResult
  /\ genResult = NoResult

ConstructUnlessUndefined(apiKey) ==
  /\ service.state = "new"
  /\ credential' = apiKey
  /\ service' = IF apiKey = undefined
                THEN [state |-> "threw",
                      error |-> [message |-> "Se requiere una API key de Gemini"]]
                ELSE [state |-> "ready", ai |-> [apiKey |-> apiKey],
                      model |-> "gemini-2.5-flash-preview-04-17"]
  /\ UNCHANGED <<input, units, mediaCalls, settles, pm, pmResult>>
  /\ UNCHANGED genVars

(***************************************************************************)
(* constructor, lines 5-9.                                                 *)
(***************************************************************************)
Construct(apiKey) ==
  /\ service.state = "new"
  /\ credential' = apiKey
  /\ service' = IF Falsy(apiKey)
                THEN [state |-> "threw",
                      error |-> [message |-> "Se requiere una API key de Gemini"]]
                ELSE [state |-> "ready", ai |-> [apiKey |-> apiKey],
                      model |-> "gemini-2.5-flash-preview-04-17"]
  /\ UNCHANGED <<input, units, mediaCalls, settles, pm, pmResult>>
  /\ UNCHANGED genVars

(***************************************************************************)
(* generateFinalResponse up to its first await: the prompt is composed and *)
(* the first remote call is issued.                                        *)
(***************************************************************************)
EnterGenerate(st, contextPrompt) ==
  /\ status' = st
  /\ prompt' = ComposePrompt(st.results, st.messages, DefaultContext(contextPrompt))
  /\ gen' = "Attempting"
  /\ attempts' = 0
  /\ response' = undefined
  /\ synthCalls' =
       <<SynthRequest(ComposePrompt(st.results, st.messages,
                                    DefaultContext(contextPrompt)), 0)>>
  /\ inFlight' = inFlight + 1
  /\ blankReturns' = 0
  /\ thrown' = NoResult
  /\ genResult' = NoResult

(***************************************************************************)
(* processMessage after `await Promise.all(promises)`, lines 21-27, run    *)
(* when the promises are `us`.                                             *)
(***************************************************************************)
AfterBatch(us, in) ==
  CASE PromiseAll(us) = "rejected" ->
         /\ pm' = "rejected"
         /\ pmResult' = FirstRejection(us)
         /\ UNCHANGED genVars
    [] PromiseAll(us) = "fulfilled" ->
         /\ pm' = "awaitingFinal"
         /\ pmResult' = NoResult
         /\ EnterGenerate(Aggregate(us, in.texts), in.contextPrompt)
    [] PromiseAll(us) = "pending" ->
         /\ pm' = "awaitingAll"
         /\ pmResult' = NoResult
         /\ UNCHANGED genVars

(***************************************************************************)
(* processMessage, lines 11-21: every processor is started in turn, each   *)
(* reads its file and issues its remote call, then the batch is awaited.   *)
(***************************************************************************)
ProcessMessage(in, reads) ==
  /\ service.state = "ready"
  /\ pm = "idle"
  /\ input' = in
  /\ units' = Dispatch(in.paths, reads)
  /\ mediaCalls' = Requests(Dispatch(in.paths, reads))
  /\ AfterBatch(Dispatch(in.paths, reads), in)
  /\ UNCHANGED <<service, credential, settles>>

(***************************************************************************)
(* A media remote call settles and its processor finishes, lines 42-45.    *)
(* When it was the last one awaited, processMessage goes on.               *)
(***************************************************************************)
Settled(u, how, result) ==
  [units EXCEPT ![u] = [@ EXCEPT !.state = "fulfilled", !.remote = how,
                                 !.result = result, !.seq = settles + 1]]

Settle(u, how, result) ==
  /\ units' = Settled(u, how, result)
  /\ settles' = settles + 1
  /\ IF pm = "awaitingAll"
     THEN AfterBatch(Settled(u, how, result), input)
     ELSE UNCHANGED <<pm, pmResult>> /\ UNCHANGED genVars
  /\ UNCHANGED <<service, credential, input, mediaCalls>>

MediaReturn(u, text) ==
  /\ u \in 1..Len(units)
  /\ units[u].state = "pending"
  /\ Settle(u, "returned", OnMediaReturn(units[u].type, text))

MediaThrow(u, err) ==
  /\ u \in 1..Len(units)
  /\ units[u].state = "pending"
  /\ Settle(u, "threw", OnMediaThrow(units[u].type, err))

(***************************************************************************)
(* A synthesis remote call returns, lines 146-158.                         *)
(***************************************************************************)
SynthReturn(text) ==
  /\ gen = "Attempting"
  /\ inFlight > 0
  /\ response' = text
  /\ attempts' = attempts + 1
  /\ blankReturns' = IF IsBlank(text) THEN blankReturns + 1 ELSE blankReturns
  /\ IF LoopAgain(text, attempts + 1)
     THEN /\ synthCalls' = Append(synthCalls, SynthRequest(prompt, attempts + 1))
          /\ inFlight' = (inFlight - 1) + 1
          /\ UNCHANGED <<gen, genResult, pm, pmResult>>
     ELSE /\ inFlight' = inFlight - 1
          /\ gen' = IF IsBlank(text) THEN "EmptyExhausted" ELSE "Success"
          /\ genResult' = AfterLoop(text)
          /\ pm' = "returned"
          /\ pmResult' = AfterLoop(text)
          /\ UNCHANGED synthCalls
  /\ UNCHANGED <<service, credential, input, units, mediaCalls, settles, status, prompt,
                 thrown>>

(***************************************************************************)
(* A synthesis remote call throws, lines 159-166.                          *)
(***************************************************************************)
SynthThrow(err) ==
  /\ gen = "Attempting"
  /\ inFlight > 0
  /\ inFlight' = inFlight - 1
  /\ gen' = "Failed"
  /\ thrown' = err
  /\ genResult' = CatchResult(err)
  /\ pm' = "returned"
  /\ pmResult' = CatchResult(err)
  /\ UNCHANGED <<service, credential, input, units, mediaCalls, settles, status, prompt,
                 attempts, response, synthCalls, blankReturns>>

Inputs ==
  {[texts |-> t, paths |-> p, contextPrompt |-> c] :
     t \in TextInputs, p \in PathInputs, c \in ContextPrompts}

Call ==
  /\ service.state = "ready"
  /\ pm = "idle"
  /\ \E in \in Inputs :
       \E reads \in [1..Len(Flatten(in.paths)) -> ReadOutcomes] :
         ProcessMessage(in, reads)

Next ==
  \/ \E apiKey \in ApiKeys : Construct(apiKey)
  \/ Call
  \/ \E u \in 1..Len(units), text \in MediaTexts : MediaReturn(u, text)
  \/ \E u \in 1..Len(units), err \in MediaErrors : MediaThrow(u, err)
  \/ \E text \in SynthTexts : SynthReturn(text)
  \/ \E err \in SynthErrors : SynthThrow(err)

Spec == Init /\ [][Next]_vars

(***************************************************************************)
(* The remote model answers every synthesis call: a call in flight         *)
(* eventually returns or throws.  Nothing is assumed of the media calls.   *)
(* Termination is checked on the calls of at most FairUnits media paths.   *)
(***************************************************************************)
SynthSettles ==
  \/ \E text \in SynthTexts : SynthReturn(text)
  \/ \E err \in SynthErrors : SynthThrow(err)

FairInputs == {in \in Inputs : Len(Flatten(in.paths)) <= FairUnits}

FairCall ==
  /\ service.state = "ready"
  /\ pm = "idle"
  /\ \E in \in FairInputs :
       \E reads \in [1..Len(Flatten(in.paths)) -> ReadOutcomes] :
         ProcessMessage(in, reads)

FairNext ==
  \/ \E apiKey \in ApiKeys : Construct(apiKey)
  \/ FairCall
  \/ \E u \in 1..Len(units), text \in MediaTexts : MediaReturn(u, text)
  \/ \E u \in 1..Len(units), err \in MediaErrors : MediaThrow(u, err)
  \/ \E text \in SynthTexts : SynthReturn(text)
  \/ \E err \in SynthErrors : SynthThrow(err)

FairSpec == Init /\ [][FairNext]_vars /\ WF_vars(SynthSettles)

(***************************************************************************)
(* Vocabulary of the properties.                                           *)
(***************************************************************************)
Units == 1..Len(units)
Called == pm # "idle"
Synthesizing == gen # "notCalled"
GenDone == gen \in {"Success", "EmptyExhausted", "Failed"}
ReadFailed(u) == units[u].remote = "notCalled"
SuccessShape(r) == DOMAIN r = {"content"}
FailureShape(r) == DOMAIN r = {"processed", "error"} /\ r.processed = FALSE
NonBlankText(text) == text \notin {undefined, "", " "}
UnitsOf(type) == {u \in Units : units[u].type = type}
InputRank(u) == 1 + Cardinality({v \in UnitsOf(units[u].type) : v < u})
SettleRank(u) ==
  1 + Cardinality({v \in UnitsOf(units[u].type) : units[v].seq < units[u].seq})
AllEmptyInput ==
  input.texts = <<>> /\ \A k \in KindSet : input.paths[k] = <<>>
\* the positions in the prompt of the labeled blocks of item i of a kind
BlocksAt(type, i) ==
  {b \in 1..Len(prompt) :
     /\ prompt[b].part = "media"
     /\ prompt[b].kind = Capitalize(type)
     /\ prompt[b].index = i}

(***************************************************************************)
(* C1: when a media path cannot be read, processMessage still does not     *)
(* reject, still calls generateFinalResponse once every unit has settled,  *)
(* and what it returns has a status of 'success' or 'error'.               *)
(***************************************************************************)
C1_UnreadableFileStillSynthesized ==
  (Called /\ \E u \in Units : ReadFailed(u)) =>
     /\ pm # "rejected"
     /\ (\A u \in Units : units[u].state # "pending") => Synthesizing
     /\ pm = "returned" => pmResult.status \in {"success", "error"}

(***************************************************************************)
(* C2: no media processor raises past its own boundary: the promise of a   *)
(* processor is never rejected, and once settled it holds a                *)
(* ProcessingResult.                                                       *)
(***************************************************************************)
C2_ProcessorsNeverReject ==
  \A u \in Units :
     /\ units[u].state # "rejected"
     /\ units[u].state = "fulfilled" =>
          SuccessShape(units[u].result) \/ FailureShape(units[u].result)

(***************************************************************************)
(* C3: when every synthesis remote call returned blank text and            *)
(* generateFinalResponse is over, exactly 5 calls were made and the result *)
(* is the structured error of the exhausted retries; never are there more  *)
(* than 5 calls.                                                           *)
(***************************************************************************)
C3_AllBlankMakesFiveCalls ==
  /\ Len(synthCalls) <= 5
  /\ (GenDone /\ thrown = NoResult /\ blankReturns = Len(synthCalls)) =>
       /\ Len(synthCalls) = 5
       /\ gen = "EmptyExhausted"
       /\ pm = "returned"
       /\ genResult.status = "error"
       /\ genResult.message =
            "No se pudo generar una respuesta después de varios intentos"
       /\ genResult.processed = TRUE

C3_Witness ==
  /\ gen = "EmptyExhausted"
  /\ blankReturns = 5
  /\ Len(synthCalls) = 5
  /\ genResult.status = "error"

(***************************************************************************)
(* C4: as soon as a synthesis remote call returns non-blank text t, after  *)
(* k-1 calls that returned blank text, generateFinalResponse is over with  *)
(* exactly k calls made, k in 1..5, and its result is                      *)
(* {status: 'success', response: t, results: {text: {content: t}}}.        *)
(***************************************************************************)
C4_FirstNonBlankIsReturned ==
  NonBlankText(response) =>
     /\ gen = "Success"
     /\ inFlight = 0
     /\ Len(synthCalls) = blankReturns + 1
     /\ Len(synthCalls) \in 1..5
     /\ genResult = [status |-> "success", response |-> response,
                     results |-> [text |-> [content |-> response]]]
     /\ pm = "returned" /\ pmResult = genResult

C4_Witness ==
  /\ gen = "Success"
  /\ blankReturns = 4
  /\ Len(synthCalls) = 5
  /\ genResult.response = "Claro."

(***************************************************************************)
(* C5, as claimed: when a synthesis remote call throws at attempt n, after *)
(* n-1 calls that returned blank text, no further call is made and the     *)
(* result has status 'error' and the message of the thrown error as its    *)
(* error field.                                                            *)
(***************************************************************************)
C5_ErrorFieldIsThrownMessage ==
  thrown # NoResult =>
     /\ gen = "Failed"
     /\ inFlight = 0
     /\ Len(synthCalls) = blankReturns + 1
     /\ pm = "returned" /\ pmResult = genResult
     /\ genResult.status = "error"
     /\ genResult.error = thrown.message

(***************************************************************************)
(* C5, amended: as above, and the error field is the message of the thrown *)
(* error when that message is a non-empty string, the fixed text           *)
(* 'Error al generar respuesta final' when it is empty or missing.         *)
(***************************************************************************)
C5_ErrorFieldIsMessageOrFixedText ==
  thrown # NoResult =>
     /\ gen = "Failed"
     /\ inFlight = 0
     /\ Len(synthCalls) = blankReturns + 1
     /\ Len(synthCalls) \in 1..5
     /\ pm = "returned" /\ pmResult = genResult
     /\ genResult.status = "error"
     /\ genResult.error =
          IF thrown.message \in {undefined, ""}
          THEN "Error al generar respuesta final"
          ELSE thrown.message

C5_Witness ==
  /\ gen = "Failed"
  /\ thrown = [message |-> "quota exceeded"]
  /\ blankReturns = 4
  /\ Len(synthCalls) = 5
  /\ genResult.error = "quota exceeded"

(***************************************************************************)
(* C6: every media item that is no longer pending has exactly one of the   *)
(* two ProcessingResult shapes: {content} if and only if its remote call   *)
(* succeeded, {processed: false, error} if and only if its processing      *)
(* failed.                                                                 *)
(***************************************************************************)
C6_ExactlyOneShapePerItem ==
  \A u \in Units :
     units[u].state # "pending" =>
        /\ SuccessShape(units[u].result) <=> units[u].remote = "returned"
        /\ FailureShape(units[u].result) <=> units[u].remote # "returned"
        /\ SuccessShape(units[u].result) # FailureShape(units[u].result)

(***************************************************************************)
(* C7, as claimed: in the prompt, every success-shaped item has exactly    *)
(* one labeled block, carrying the index i+1 of its position i in its      *)
(* kind, and every failure-shaped item has none.                           *)
(***************************************************************************)
C7_EverySuccessShapeHasOneBlock ==
  Synthesizing =>
     \A e \in 1..Len(status.results) :
        \A p \in 1..Len(status.results[e].items) :
           Cardinality(BlocksAt(status.results[e].type, (p - 1) + 1)) =
              IF SuccessShape(status.results[e].items[p]) THEN 1 ELSE 0

(***************************************************************************)
(* C7, amended: in the prompt, every success-shaped item whose content is  *)
(* a non-empty string has exactly one labeled block, carrying the index    *)
(* i+1 of its position i in its kind, the label of its kind and its        *)
(* content; a failure-shaped item and a success-shaped item whose content  *)
(* is empty or missing have none; the prompt has no other labeled block.   *)
(***************************************************************************)
C7_NonEmptyContentHasOneBlock ==
  Synthesizing =>
     /\ \A e \in 1..Len(status.results) :
          \A p \in 1..Len(status.results[e].items) :
             LET type == status.results[e].type
                 item == status.results[e].items[p]
                 blocks == BlocksAt(type, (p - 1) + 1)
             IN IF SuccessShape(item) /\ item.content \notin {undefined, ""}
                THEN /\ Cardinality(blocks) = 1
                     /\ \A b \in blocks :
                          /\ prompt[b].content = item.content
                          /\ prompt[b].label =
                               (CASE type = "audio" -> "transcription"
                                  [] type = "document" -> "summary"
                                  [] OTHER -> "description")
                ELSE blocks = {}
     /\ \A b \in 1..Len(prompt) :
          prompt[b].part = "media" =>
             \E e \in 1..Len(status.results) :
                /\ Capitalize(status.results[e].type) = prompt[b].kind
                /\ prompt[b].index \in 1..Len(status.results[e].items)

C7_Witness ==
  /\ Synthesizing
  /\ \E e \in 1..Len(status.results) :
        /\ Len(status.results[e].items) = 2
        /\ FailureShape(status.results[e].items[1])
        /\ SuccessShape(status.results[e].items[2])
        /\ status.results[e].items[2].content = "a cat"
        /\ Cardinality(BlocksAt(status.results[e].type, 1)) = 0
        /\ Cardinality(BlocksAt(status.results[e].type, 2)) = 1

(***************************************************************************)
(* C8: called with no texts and no media paths, processMessage sends no    *)
(* media request, hands generateFinalResponse a status with no kind key    *)
(* and no message, and the prompt is the preamble alone, followed by the   *)
(* conversation-history block if and only if contextPrompt is non-empty.   *)
(***************************************************************************)
C8_EmptyInputGoesStraightToSynthesis ==
  (Called /\ AllEmptyInput) =>
     /\ mediaCalls = <<>>
     /\ units = <<>>
     /\ Synthesizing
     /\ status = [results |-> <<>>, messages |-> <<>>]
     /\ prompt =
          IF input.contextPrompt \in {undefined, ""}
          THEN <<[part |-> "preamble"]>>
          ELSE <<[part |-> "preamble"],
                 [part |-> "history", text |-> input.contextPrompt]>>
     /\ \A c \in 1..Len(synthCalls) : synthCalls[c].contents = prompt

C8_Witness ==
  /\ Called /\ AllEmptyInput
  /\ input.contextPrompt = "user: hi"
  /\ Len(prompt) = 2
  /\ gen = "Success"

(***************************************************************************)
(* C9: full barrier.  While any media unit is pending, generateFinalResponse *)
(* has not been called and no synthesis remote call is in flight or has    *)
(* been made.                                                              *)
(***************************************************************************)
C9_SynthesisOnlyAfterAllSettled ==
  (\E u \in Units : units[u].state = "pending") =>
     /\ ~Synthesizing
     /\ inFlight = 0
     /\ synthCalls = <<>>

C9_Witness ==
  /\ inFlight = 1
  /\ Len(synthCalls) = 1
  /\ Len(units) = 2
  /\ \A u \in Units : units[u].state = "fulfilled"
  /\ units[2].seq < units[1].seq

(***************************************************************************)
(* C10, as claimed: the results of a kind are in the order in which the    *)
(* media calls of that kind completed.                                     *)
(***************************************************************************)
C10_ResultsInCompletionOrder ==
  Synthesizing =>
     \A u \in Units :
        /\ HasKey(status.results, units[u].type)
        /\ Get(status.results, units[u].type)[SettleRank(u)] = units[u].result

(***************************************************************************)
(* C10, amended: the results of a kind are in the order of the input paths *)
(* of that kind, whatever the order in which the media calls completed:    *)
(* the result at position j is the result of the j-th path.                *)
(***************************************************************************)
C10_ResultsInInputOrder ==
  Synthesizing =>
     \A u \in Units :
        /\ HasKey(status.results, units[u].type)
        /\ Len(Get(status.results, units[u].type)) =
             Cardinality(UnitsOf(units[u].type))
        /\ Get(status.results, units[u].type)[InputRank(u)] = units[u].result
        /\ units[u].path = input.paths[units[u].type][InputRank(u)]

C10_Witness ==
  /\ Synthesizing
  /\ Len(units) = 2
  /\ units[1].type = units[2].type
  /\ units[2].seq < units[1].seq
  /\ units[1].result # units[2].result
  /\ Get(status.results, units[1].type) = <<units[1].result, units[2].result>>

(***************************************************************************)
(* C11: the text messages pass through processMessage unchanged.  The      *)
(* messages handed to generateFinalResponse are the input texts in input   *)
(* order, and the prompt has the user-messages block, numbered 1..n in     *)
(* that order, if and only if there is at least one text message.          *)
(***************************************************************************)
MessagesBlocks == {b \in 1..Len(prompt) : prompt[b].part = "messages"}

C11_TextsPassThroughUnchanged ==
  Synthesizing =>
     /\ status.messages = input.texts
     /\ Cardinality(MessagesBlocks) = IF Len(input.texts) >= 1 THEN 1 ELSE 0
     /\ \A b \in MessagesBlocks :
          /\ Len(prompt[b].lines) = Len(input.texts)
          /\ \A m \in 1..Len(input.texts) :
               prompt[b].lines[m] = [n |-> m, msg |-> input.texts[m]]

C11_Witness ==
  /\ Synthesizing
  /\ input.texts = <<"hola", "que ves?">>
  /\ Len(units) = 2
  /\ units[2].seq < units[1].seq
  /\ units[1].remote = "threw"
  /\ Cardinality(MessagesBlocks) = 1

(***************************************************************************)
(* C12: constructing the service with an absent or empty credential raises *)
(* and leaves no service to call; with a non-empty credential it succeeds, *)
(* and the client handle and the model name, once set, never change.       *)
(***************************************************************************)
C12_CredentialCheckedOnce ==
  /\ [](service.state # "new" =>
          IF credential \in {undefined, ""}
          THEN /\ service.state = "threw"
               /\ DOMAIN service = {"state", "error"}
               /\ ~Called
          ELSE /\ service.state = "ready"
               /\ service.ai = [apiKey |-> credential]
               /\ service.model = "gemini-2.5-flash-preview-04-17")
  /\ [][service.state # "new" => service' = service]_vars

C12_Witness ==
  /\ service.state = "ready"
  /\ service.ai.apiKey = "KEY"
  /\ pm = "returned"

(***************************************************************************)
(* C13: generateFinalResponse follows the state machine and terminates.    *)
(* It starts attempting with no attempt made; an attempt goes to Success   *)
(* on non-blank text, to the next attempt on blank text while fewer than 5 *)
(* attempts were made, to EmptyExhausted when the 5th attempt is blank, to *)
(* Failed on a throw; the terminal states are final; at most 5 calls are   *)
(* made; and when every call returns or throws, a terminal state is        *)
(* reached.                                                                *)
(***************************************************************************)
C13_StateMachineTerminates ==
  /\ [](Len(synthCalls) <= 5 /\ attempts <= 5)
  /\ [][gen = "notCalled" /\ gen' # "notCalled" =>
          gen' = "Attempting" /\ attempts' = 0 /\ Len(synthCalls') = 1]_vars
  /\ [][gen = "Attempting" =>
          \/ /\ gen' = "Success"
             /\ NonBlankText(response')
             /\ synthCalls' = synthCalls
          \/ /\ gen' = "Attempting"
             /\ ~NonBlankText(response')
             /\ attempts' = attempts + 1
             /\ attempts' < 5
             /\ Len(synthCalls') = Len(synthCalls) + 1
          \/ /\ gen' = "EmptyExhausted"
             /\ ~NonBlankText(response')
             /\ attempts' = 5
             /\ synthCalls' = synthCalls
          \/ /\ gen' = "Failed"
             /\ thrown' # NoResult
             /\ synthCalls' = synthCalls]_vars
  /\ [][GenDone => gen' = gen /\ genResult' = genResult
                   /\ synthCalls' = synthCalls]_vars
  /\ (gen = "Attempting") ~> GenDone

C13_Witness ==
  /\ gen = "EmptyExhausted"
  /\ attempts = 5
  /\ Len(units) = 1
  /\ units[1].remote = "returned"

C15_RetriesAreSequential ==
  /\ [](/\ inFlight \in {0, 1}
        /\ Len(synthCalls) <= blankReturns + 1
        /\ inFlight = 1 => gen = "Attempting" /\ Len(synthCalls) = blankReturns + 1)
  /\ [][Len(synthCalls') > Len(synthCalls) /\ Len(synthCalls) > 0 =>
          /\ Len(synthCalls') = Len(synthCalls) + 1
          /\ inFlight = 1
          /\ blankReturns' = blankReturns + 1
          /\ ~NonBlankText(response')]_vars

C15_Witness ==
  /\ inFlight = 1
  /\ Len(synthCalls) = 3
  /\ blankReturns = 2

(***************************************************************************)
(* C16: processMessage neither returns nor raises while a media unit it    *)
(* dispatched has not settled.                                             *)
(***************************************************************************)
C16_NoCompletionWhileUnitPending ==
  pm \in {"returned", "rejected"} =>
     \A u \in Units : units[u].state # "pending"

(***************************************************************************)
(* C17: the media tier discards the underlying error.  Whatever error the  *)
(* remote call of a unit threw, the result is {processed: false, error:    *)
(* the fixed message of the kind}, and the prompt has no block for that    *)
(* unit and no block holding an error text or a fixed failure message.     *)
(***************************************************************************)
FixedMessageOf(type) ==
  CASE type = "image" -> "Error al procesar imagen"
    [] type = "audio" -> "Error al procesar audio"
    [] type = "video" -> "Error al procesar video"
    [] type = "sticker" -> "Error al procesar sticker"
    [] type = "document" -> "Error al procesar documento"

C17_MediaErrorIsDiscarded ==
  /\ \A u \in Units :
        units[u].remote = "threw" =>
           /\ units[u].result =
                [processed |-> FALSE, error |-> FixedMessageOf(units[u].type)]
           /\ Synthesizing =>
                /\ BlocksAt(units[u].type, InputRank(u)) = {}
                /\ Get(status.results, units[u].type)[InputRank(u)] =
                     [processed |-> FALSE, error |-> FixedMessageOf(units[u].type)]
  /\ \A b \in 1..Len(prompt) :
        prompt[b].part = "media" =>
           /\ prompt[b].content \notin {e.message : e \in MediaErrors}
           /\ prompt[b].content \notin {FixedMessageOf(k) : k \in KindSet}

C17_Witness ==
  /\ Synthesizing
  /\ Len(units) = 2
  /\ units[1].remote = "threw"
  /\ units[2].remote = "returned"
  /\ units[2].result = [content |-> "a cat"]
  /\ Cardinality({b \in 1..Len(prompt) : prompt[b].part = "media"}) = 1

(***************************************************************************)
(* C18: when processMessage reaches synthesis, every input path caused     *)
(* exactly one media remote call, sent by the processor of its kind; every *)
(* kind has as many results as input paths; a kind without input paths has *)
(* no key; and the keys, hence the blocks of the prompt, are in the order  *)
(* image, audio, video, sticker, document.                                 *)
(***************************************************************************)
KindOrder == <<"image", "audio", "video", "sticker", "document">>
KindTitles == <<"Image", "Audio", "Video", "Sticker", "Document">>
KindTemperatures == <<85, 85, 85, 100, 45>>
KindMimeTypes ==
  <<"image/jpeg", "audio/mp3", "video/mp4", "image/jpeg", "application/pdf">>
OrderOf(type) == CHOOSE k \in 1..5 : KindOrder[k] = type
OrderOfTitle(title) == CHOOSE k \in 1..5 : KindTitles[k] = title

C18_OneCallPerPathKeysInKindOrder ==
  Synthesizing =>
     /\ \A k \in KindSet :
          /\ \A j \in 1..Len(input.paths[k]) :
               Cardinality({c \in 1..Len(mediaCalls) :
                              /\ mediaCalls[c].type = k
                              /\ mediaCalls[c].path = input.paths[k][j]}) = 1
          /\ HasKey(status.results, k) <=> Len(input.paths[k]) > 0
          /\ HasKey(status.results, k) =>
               Len(Get(status.results, k)) = Len(input.paths[k])
     /\ \A c \in 1..Len(mediaCalls) :
          /\ \E j \in 1..Len(input.paths[mediaCalls[c].type]) :
               input.paths[mediaCalls[c].type][j] = mediaCalls[c].path
          /\ mediaCalls[c].temperature = KindTemperatures[OrderOf(mediaCalls[c].type)]
          /\ mediaCalls[c].mimeType = KindMimeTypes[OrderOf(mediaCalls[c].type)]
     /\ settles = Len(mediaCalls)
     /\ \A e, f \in 1..Len(status.results) :
          e < f => OrderOf(status.results[e].type) < OrderOf(status.results[f].type)
     /\ \A b, c \in 1..Len(prompt) :
          (b < c /\ prompt[b].part = "media" /\ prompt[c].part = "media") =>
             OrderOfTitle(prompt[b].kind) <= OrderOfTitle(prompt[c].kind)

C18_Witness ==
  /\ Synthesizing
  /\ Len(units) = 2
  /\ units[1].type = "audio"
  /\ units[2].type = "sticker"
  /\ units[2].seq < units[1].seq
  /\ Len(status.results) = 2
  /\ status.results[1].type = "audio"
  /\ Cardinality({b \in 1..Len(prompt) : prompt[b].part = "media"}) = 2

(***************************************************************************)
(* C19: a result with status 'success' is returned only in Success; its    *)
(* response is non-blank, equals results.text.content and is the text of   *)
(* the last remote call made, every earlier call having returned blank     *)
(* text.                                                                   *)
(***************************************************************************)
C19_SuccessIsLastNonBlankText ==
  /\ (genResult # NoResult /\ genResult.status = "success") => gen = "Success"
  /\ gen = "Success" =>
       /\ genResult.status = "success"
       /\ NonBlankText(genResult.response)
       /\ genResult.results.text.content = genResult.response
       /\ genResult.response = response
       /\ attempts = Len(synthCalls)
       /\ blankReturns = Len(synthCalls) - 1

C19_Witness ==
  /\ gen = "Success"
  /\ blankReturns = 2
  /\ Len(synthCalls) = 3
  /\ genResult.response = "Claro."

====
